---- MODULE Spec2Model ----
(***************************************************************************)
(* A model of fistbump (src/fistbump/fistbump.py): one run of main() over  *)
(* a git repository and a working tree.  The git commands and the file     *)
(* system are the environment; every external invocation and every file    *)
(* write is appended to the event log `events`.                            *)
(***************************************************************************)
EXTENDS Integers, Sequences, FiniteSets, TLC

(* ------------------------------ bounds -------------------------------- *)

\* number of version.txt files the glob can find in the tree
MaxVersionFiles == 1

(* ------------------------------ text ---------------------------------- *)

\* the decimal digits; the texts of the model are ASCII
Digits == {"0", "1", "2", "3", "4", "5", "6", "7", "8", "9"}

DigitVal(c) ==
    CASE c = "0" -> 0 [] c = "1" -> 1 [] c = "2" -> 2 [] c = "3" -> 3
      [] c = "4" -> 4 [] c = "5" -> 5 [] c = "6" -> 6 [] c = "7" -> 7
      [] c = "8" -> 8 [] c = "9" -> 9

\* the character at position i, empty past the end
CharAt(s, i) == IF i \in 1..Len(s) THEN SubSeq(s, i, i) ELSE ""

\* str.startswith
StartsWith(s, p) == Len(s) >= Len(p) /\ SubSeq(s, 1, Len(p)) = p

\* index of the first occurrence of the one-character string c in s at or
\* after position i, or 0 when there is none
RECURSIVE IndexFrom(_, _, _)
IndexFrom(s, c, i) ==
    IF i > Len(s) THEN 0
    ELSE IF CharAt(s, i) = c THEN i
    ELSE IndexFrom(s, c, i + 1)

\* the text has no character c
NotIn(c, s) == IndexFrom(s, c, 1) = 0

\* str.split(sep) for a one-character separator
RECURSIVE Split(_, _)
Split(s, sep) ==
    LET k == IndexFrom(s, sep, 1) IN
    IF k = 0 THEN <<s>>
    ELSE <<SubSeq(s, 1, k - 1)>> \o Split(SubSeq(s, k + 1, Len(s)), sep)

\* sep.join(list)
RECURSIVE Join(_, _)
Join(list, sep) ==
    IF list = <<>> THEN ""
    ELSE IF Len(list) = 1 THEN list[1]
    ELSE list[1] \o sep \o Join(Tail(list), sep)

\* \s of a str pattern and the characters str.strip removes, among the
\* ASCII characters: space, \t \n \v \f \r and the separators \x1c-\x1f
Whitespace == {" ", "\t", "\n", "\r", "\f", "", "", "", "", ""}

AllDigits(s) == Len(s) > 0 /\ \A i \in 1..Len(s) : CharAt(s, i) \in Digits

\* the numeric identifier of the semver grammar: 0|[1-9]\d*
IsNumericId(s) == AllDigits(s) /\ (Len(s) > 1 => CharAt(s, 1) # "0")

RECURSIVE ToInt(_)
ToInt(s) ==
    IF Len(s) = 0 THEN 0
    ELSE 10 * ToInt(SubSeq(s, 1, Len(s) - 1)) + DigitVal(CharAt(s, Len(s)))

(* ------------------------------ versions ------------------------------ *)

\* the prerelease of a version that has none
NoPre == ""

\* outcome of a parse that raised ValueError
ValueError == [error |-> "ValueError"]

\* the build of a version that has none
NoBuild == ""

\* [0-9A-Za-z-]
IdChars == Digits \cup {"a", "b", "c", "d", "e", "f", "g", "h", "i", "j",
    "k", "l", "m", "n", "o", "p", "q", "r", "s", "t", "u", "v", "w", "x",
    "y", "z", "A", "B", "C", "D", "E", "F", "G", "H", "I", "J", "K", "L",
    "M", "N", "O", "P", "Q", "R", "S", "T", "U", "V", "W", "X", "Y", "Z",
    "-"}

\* a prerelease identifier: numeric without leading zeros, or alphanumeric
IsPreId(s) ==
    /\ Len(s) > 0
    /\ \A i \in 1..Len(s) : CharAt(s, i) \in IdChars
    /\ (AllDigits(s) => IsNumericId(s))

IsPrerelease(s) ==
    LET ids == Split(s, ".") IN \A i \in 1..Len(ids) : IsPreId(ids[i])

\* build metadata: dot-separated non-empty identifiers of [0-9A-Za-z-]
IsBuild(s) ==
    LET ids == Split(s, ".")
    IN  \A i \in 1..Len(ids) :
            /\ Len(ids[i]) > 0
            /\ \A j \in 1..Len(ids[i]) : CharAt(ids[i], j) \in IdChars

\* semver.VersionInfo.parse(text, optional_minor_and_patch): the record of
\* the version, or ValueError. The pattern ends with $, which also matches
\* before one trailing newline.
VersionInfo_parse(text, optional_minor_and_patch) ==
    LET body == IF Len(text) > 0 /\ CharAt(text, Len(text)) = "\n"
                THEN SubSeq(text, 1, Len(text) - 1) ELSE text
        plus == IndexFrom(body, "+", 1)
        head == IF plus = 0 THEN body ELSE SubSeq(body, 1, plus - 1)
        bld  == IF plus = 0 THEN NoBuild
                ELSE SubSeq(body, plus + 1, Len(body))
        dash == IndexFrom(head, "-", 1)
        core == IF dash = 0 THEN head ELSE SubSeq(head, 1, dash - 1)
        pre  == IF dash = 0 THEN NoPre ELSE SubSeq(head, dash + 1, Len(head))
        nums == Split(core, ".")
        n    == Len(nums)
    IN  IF /\ n \in (IF optional_minor_and_patch THEN {1, 2, 3} ELSE {3})
           /\ \A i \in 1..n : IsNumericId(nums[i])
           /\ (dash # 0 => IsPrerelease(pre))
           /\ (plus # 0 => IsBuild(bld))
        THEN [major |-> ToInt(nums[1]),
              minor |-> IF n >= 2 THEN ToInt(nums[2]) ELSE 0,
              patch |-> IF n >= 3 THEN ToInt(nums[3]) ELSE 0,
              prerelease |-> pre,
              build |-> bld]
        ELSE ValueError

\* str(version)
VersionStr(v) ==
    ToString(v.major) \o "." \o ToString(v.minor) \o "." \o ToString(v.patch)
        \o (IF v.prerelease = NoPre THEN "" ELSE "-" \o v.prerelease)
        \o (IF v.build = NoBuild THEN "" ELSE "+" \o v.build)

bump_major(v) ==
    [major |-> v.major + 1, minor |-> 0, patch |-> 0, prerelease |-> NoPre,
     build |-> NoBuild]

bump_minor(v) ==
    [major |-> v.major, minor |-> v.minor + 1, patch |-> 0,
     prerelease |-> NoPre, build |-> NoBuild]

bump_patch(v) ==
    [major |-> v.major, minor |-> v.minor, patch |-> v.patch + 1,
     prerelease |-> NoPre, build |-> NoBuild]

\* position of the last digit of s, or 0
RECURSIVE LastDigit(_, _)
LastDigit(s, i) ==
    IF i = 0 THEN 0
    ELSE IF CharAt(s, i) \in Digits THEN i ELSE LastDigit(s, i - 1)

\* first position of the run of digits that ends at i
RECURSIVE RunStart(_, _)
RunStart(s, i) ==
    IF i > 1 /\ CharAt(s, i - 1) \in Digits THEN RunStart(s, i - 1) ELSE i

Max(a, b) == IF a >= b THEN a ELSE b

\* semver _increment_string: the last number in the string plus one, written
\* over its digits from the right so that leading zeros keep the width
IncrementString(s) ==
    LET end   == LastDigit(s, Len(s))
        start == RunStart(s, end)
        next_ == ToString(ToInt(SubSeq(s, start, end)) + 1)
    IN  IF end = 0 THEN s
        ELSE SubSeq(s, 1, Max(end - Len(next_), start - 1)) \o next_
             \o SubSeq(s, end + 1, Len(s))

bump_prerelease(v, token) ==
    [major |-> v.major, minor |-> v.minor, patch |-> v.patch,
     prerelease |-> IncrementString(IF v.prerelease # NoPre THEN v.prerelease
                                    ELSE token \o ".0"),
     build |-> NoBuild]

\* parse_version: <<version or ValueError, prefix>>
parse_version(tag) ==
    LET prefix == IF StartsWith(tag, "v") THEN "v" ELSE ""
        rest   == IF StartsWith(tag, "v") THEN SubSeq(tag, 2, Len(tag))
                  ELSE tag
    IN  <<VersionInfo_parse(rest, TRUE), prefix>>

is_version_parseable(tag) == parse_version(tag)[1] # ValueError

(* ------------------------------ state --------------------------------- *)

VARIABLES
    args,           \* the parsed command line (argparse namespace)
    pc,             \* position of main()
    exit,           \* process exit status, Running until the process ends
    \* the repository as the run finds it; what the run changes is recorded
    \* in fs, index, commits and newTags
    unstaged,       \* tracked files differ from the index
    staged,         \* the index differs from the HEAD commit
    headTags,       \* tags pointing at HEAD, in listing order
    nearest,        \* the tag git describe finds, or NoTag
    tree,           \* working tree: version.txt files and pyproject.toml
    parsed_version, \* main(): locals
    prefix,
    new_version,
    new_version_tag,
    updates,        \* main(): the update dict, in insertion order
    next_update,    \* main(): index of the next item of the apply loop
    commit_needed,
    ran_commands,
    answer,         \* the line read by input()
    out,            \* lines printed to standard output
    events,         \* every external command invoked and file written
    fs,             \* file system: contents written during the run
    index,          \* git: paths staged during the run
    commits,        \* git: messages of the commits created during the run
    newTags         \* git: tags created during the run

vars == <<args, pc, exit, unstaged, staged, headTags, nearest, tree,
          parsed_version, prefix, new_version, new_version_tag, updates,
          next_update, commit_needed, ran_commands, answer, out, events, fs,
          index, commits, newTags>>

repoVars == <<unstaged, staged, headTags, nearest>>
localVars == <<parsed_version, prefix, new_version, new_version_tag, updates,
               next_update, commit_needed, ran_commands, answer>>
effectVars == <<fs, index, commits, newTags>>

Running == -1
None == [none |-> TRUE]
NoTag == ""
NoAnswer == "<no input>"

\* values of --set-version: not given, a full version, a version the strict
\* parse rejects
SetVersionValues == {"", "2.0.0", "2.0"}

ArgSpace ==
    [version : BOOLEAN, check : BOOLEAN, minor : BOOLEAN, major : BOOLEAN,
     patch : BOOLEAN, set_version : SetVersionValues, pre : BOOLEAN,
     force : BOOLEAN, dry : BOOLEAN]

\* tags of the sample repositories: with and without prefix, major only,
\* a pre-release, and a tag that is not a version
AncestorTags == {"v1.2.3", "build"}
HeadTagLists == {<<>>, <<"2">>, <<"v1.3.0-RC.1">>, <<"build">>,
                 <<"build", "v1.2.3">>}

Range(f) == {f[i] : i \in DOMAIN f}

\* git describe names a tag at HEAD when there is one, else the closest
\* ancestor tag, else nothing
RepoOK(h, n) ==
    IF h # <<>> THEN n \in Range(h) ELSE n \in AncestorTags \cup {NoTag}

Init ==
    /\ args \in ArgSpace
    /\ pc = "start"
    /\ exit = Running
    /\ unstaged \in BOOLEAN
    /\ staged \in BOOLEAN
    /\ headTags \in HeadTagLists
    /\ nearest \in AncestorTags \cup Range(headTags) \cup {NoTag}
    /\ RepoOK(headTags, nearest)
    /\ tree = None
    /\ parsed_version = None
    /\ prefix = ""
    /\ new_version = None
    /\ new_version_tag = ""
    /\ updates = <<>>
    /\ next_update = 1
    /\ commit_needed = FALSE
    /\ ran_commands = <<>>
    /\ answer = NoAnswer
    /\ out = <<>>
    /\ events = <<>>
    /\ fs = <<>>
    /\ index = {}
    /\ commits = <<>>
    /\ newTags = <<>>

(* ------------------------------ git queries --------------------------- *)

\* one entry of the event log: kind is "query" (check_output), "run"
\* (subprocess.run) or "write" (Path.write_text)
Event(kind, op, text, ok) ==
    [kind |-> kind, op |-> op, text |-> text, ok |-> ok]

\* sample of the suffix git describe appends when HEAD is past the tag
PastTagSuffix == "-2-g1a2b3c4"

\* exit status and output of `git describe --tags`
DescribeOK == nearest # NoTag
DescribeOutput ==
    IF headTags # <<>> THEN nearest ELSE nearest \o PastTagSuffix

git_check_tagged == IF DescribeOK THEN NotIn("-", DescribeOutput) ELSE FALSE

git_find_tag == IF DescribeOK THEN nearest ELSE NoTag

\* git_get_head_tags when `git tag --points-at HEAD` returns success iff ok:
\* the lines of its output ("".split("\n") is [""]), or [] on
\* CalledProcessError
git_get_head_tags(ok) ==
    IF ok THEN Split(Join(headTags, "\n"), "\n") ELSE <<>>

\* `git diff --quiet` compares the working tree with the index
is_working_directory_clean == ~unstaged

EvDiffQuiet == Event("query", "diff", "git diff --quiet",
                     is_working_directory_clean)
EvDescribe == Event("query", "describe", "git describe --tags", DescribeOK)
EvFindTag == Event("query", "describe", "git describe --tags --abbrev=0",
                   DescribeOK)
EvHeadTags(ok) ==
    Event("query", "tag-list", "git tag --points-at HEAD", ok)
EvLsFiles(path, ok) ==
    Event("query", "ls-files", "git ls-files --error-unmatch " \o path, ok)

(* ------------------------------ main ---------------------------------- *)

\* the version.txt beside the module: its text, or Missing
Missing == [missing |-> TRUE]
OwnVersionFiles == {[text |-> "0.1.0\n"], Missing}

\* str.strip
RECURSIVE Strip(_)
Strip(s) ==
    IF Len(s) > 0 /\ CharAt(s, 1) \in Whitespace
    THEN Strip(SubSeq(s, 2, Len(s)))
    ELSE IF Len(s) > 0 /\ CharAt(s, Len(s)) \in Whitespace
    THEN Strip(SubSeq(s, 1, Len(s) - 1))
    ELSE s

\* get_version on a version.txt that exists
get_version(f) == Strip(f.text)

Return(code) == pc' = "done" /\ exit' = code
Raise == pc' = "crashed" /\ exit' = 1

\* --version (lines 138-140)
ShowVersion ==
    /\ pc = "start"
    /\ args.version
    /\ \E f \in OwnVersionFiles :
        IF f = Missing
        THEN Raise /\ out' = out
        ELSE /\ out' = Append(out, "fistbump " \o get_version(f))
             /\ Return(0)
    /\ UNCHANGED <<args, repoVars, tree, localVars, events, effectVars>>

MsgNotClean ==
    "Working directory is not clean, commit changes before proceeding"
MsgNotTagged ==
    "Current version is not tagged, need to run 'fistbump' first"

\* --check (lines 142-149)
CheckMode ==
    /\ pc = "start"
    /\ ~args.version
    /\ args.check
    /\ IF ~is_working_directory_clean
       THEN /\ events' = Append(events, EvDiffQuiet)
            /\ out' = Append(out, MsgNotClean)
            /\ Return(2)
       ELSE IF ~git_check_tagged
       THEN /\ events' = events \o <<EvDiffQuiet, EvDescribe>>
            /\ out' = Append(out, MsgNotTagged)
            /\ Return(2)
       ELSE /\ events' = events \o <<EvDiffQuiet, EvDescribe>>
            /\ out' = out
            /\ Return(0)
    /\ UNCHANGED <<args, repoVars, tree, localVars, effectVars>>

\* lines 151-157
FindTag ==
    /\ pc = "start"
    /\ ~args.version
    /\ ~args.check
    /\ events' = Append(events, EvFindTag)
    /\ LET current_tag == git_find_tag
           parsed == parse_version(current_tag)
       IN  IF current_tag = NoTag
           THEN /\ out' = Append(out, "No tags found")
                /\ Return(0)
                /\ UNCHANGED <<parsed_version, prefix>>
           ELSE IF parsed[1] = ValueError
           THEN /\ Raise
                /\ UNCHANGED <<out, parsed_version, prefix>>
           ELSE /\ parsed_version' = parsed[1]
                /\ prefix' = parsed[2]
                /\ out' = Append(out, "Current version: " \o parsed[2]
                                      \o VersionStr(parsed[1]))
                /\ pc' = "bump"
                /\ exit' = exit
    /\ UNCHANGED <<args, repoVars, tree, new_version, new_version_tag,
                   updates, next_update, commit_needed, ran_commands, answer,
                   effectVars>>

MsgNoBump ==
    "No version bump requested, consider --major, --minor, --patch, --set-version or --pre"

\* variant: the chain falls back to a patch bump instead of returning
RequestedVersionDefaultPatch ==
    IF args.minor THEN bump_minor(parsed_version)
    ELSE IF args.major THEN bump_major(parsed_version)
    ELSE IF args.set_version # "" THEN VersionInfo_parse(args.set_version, FALSE)
    ELSE IF args.pre THEN bump_prerelease(bump_minor(parsed_version), "dev")
    ELSE bump_patch(parsed_version)

\* the if/elif chain of lines 159-173: the new version, ValueError when
\* --set-version does not parse, None when no branch is taken
RequestedVersion ==
    IF args.minor THEN bump_minor(parsed_version)
    ELSE IF args.major THEN bump_major(parsed_version)
    ELSE IF args.patch THEN bump_patch(parsed_version)
    ELSE IF args.set_version # "" THEN VersionInfo_parse(args.set_version, FALSE)
    ELSE IF args.pre THEN bump_prerelease(bump_minor(parsed_version), "dev")
    ELSE None

\* lines 159-178
ComputeNewVersion ==
    /\ pc = "bump"
    /\ LET v == RequestedVersion
           t == prefix \o VersionStr(v)
       IN  IF v = None
           THEN /\ out' = Append(out, MsgNoBump)
                /\ Return(0)
                /\ UNCHANGED <<new_version, new_version_tag>>
           ELSE IF v = ValueError
           THEN /\ Raise
                /\ UNCHANGED <<out, new_version, new_version_tag>>
           ELSE /\ new_version' = v
                /\ new_version_tag' = t
                /\ out' = out \o <<"New version: " \o VersionStr(v)>>
                      \o (IF VersionStr(v) # t THEN <<"New tag: " \o t>>
                          ELSE <<>>)
                /\ pc' = "guard_clean"
                /\ exit' = exit
    /\ UNCHANGED <<args, repoVars, tree, parsed_version, prefix, updates,
                   next_update, commit_needed, ran_commands, answer, events,
                   effectVars>>

(* ------------------------------ run_command --------------------------- *)

CmdText(cmd) == Join(cmd, " ")

\* line 183: the command is only reported
SkipsCommand(check_dry) == check_dry /\ args.dry

\* line 187: the command is appended to ran_commands
LogsCommand(check_dry) == ~check_dry

\* variant: subprocess.run without check=True, a failure is not raised
run_command_unchecked(cmd, op, check_dry, ok) ==
    IF SkipsCommand(check_dry)
    THEN [printed |-> <<"DRY RUN: " \o CmdText(cmd)>>,
          ran |-> ran_commands, ev |-> <<>>, raised |-> FALSE,
          done |-> FALSE]
    ELSE [printed |-> <<>>,
          ran |-> IF LogsCommand(check_dry)
                  THEN Append(ran_commands, CmdText(cmd))
                  ELSE ran_commands,
          ev |-> <<Event("run", op, CmdText(cmd), ok)>>,
          raised |-> FALSE,
          done |-> ok]

\* run_command (lines 182-189) on a command whose process returns success
\* iff ok: the lines printed, the new ran_commands, the events, whether
\* CalledProcessError is raised and whether the command took effect
run_command(cmd, op, check_dry, ok) ==
    IF SkipsCommand(check_dry)
    THEN [printed |-> <<"DRY RUN: " \o CmdText(cmd)>>,
          ran |-> ran_commands, ev |-> <<>>, raised |-> FALSE,
          done |-> FALSE]
    ELSE [printed |-> <<>>,
          ran |-> IF LogsCommand(check_dry)
                  THEN Append(ran_commands, CmdText(cmd))
                  ELSE ran_commands,
          ev |-> <<Event("run", op, CmdText(cmd), ok)>>,
          raised |-> ~ok,
          done |-> ok]

(* ------------------------------ guards -------------------------------- *)

MsgDirtyPre ==
    "Working directory is not clean, but proceeding because of --pre"
MsgDirty ==
    "Working directory is not clean, commit changes before proceeding or use the --force"

\* lines 193-199: a dirty tree ends the run
DirtyBlocks == ~args.pre /\ ~args.force

\* lines 191-199
CheckClean ==
    /\ pc = "guard_clean"
    /\ IF is_working_directory_clean
       THEN /\ events' = Append(events, EvDiffQuiet)
            /\ pc' = "guard_tag"
            /\ UNCHANGED <<exit, out, ran_commands>>
       ELSE \E ok \in BOOLEAN :
            LET r == run_command(<<"git", "status", "-s">>, "status", FALSE, ok)
            IN  /\ events' = Append(events, EvDiffQuiet) \o r.ev
                /\ ran_commands' = r.ran
                /\ IF r.raised
                   THEN Raise /\ out' = out \o r.printed
                   ELSE IF args.pre
                   THEN /\ out' = out \o r.printed \o <<MsgDirtyPre>>
                        /\ pc' = "guard_tag"
                        /\ exit' = exit
                   ELSE IF DirtyBlocks
                   THEN /\ out' = out \o r.printed \o <<MsgDirty>>
                        /\ Return(0)
                   ELSE /\ out' = out \o r.printed
                        /\ pc' = "guard_tag"
                        /\ exit' = exit
    /\ UNCHANGED <<args, repoVars, tree, parsed_version, prefix, new_version,
                   new_version_tag, updates, next_update, commit_needed,
                   answer, effectVars>>

MsgHeadTagged ==
    "Current HEAD is tagged with a version tag(s). Refusing to proceed without --force: "

\* line 202: HEAD carries a version tag and --force is not given
HeadTaggedBlocks(current_head_tags) ==
    /\ ~args.force
    /\ \E i \in DOMAIN current_head_tags :
            is_version_parseable(current_head_tags[i])

\* lines 201-207
CheckHeadTags ==
    /\ pc = "guard_tag"
    /\ \E ok \in BOOLEAN :
        LET current_head_tags == git_get_head_tags(ok)
        IN  /\ events' = Append(events, EvHeadTags(ok))
            /\ IF HeadTaggedBlocks(current_head_tags)
               THEN /\ out' = Append(out, MsgHeadTagged
                                          \o Join(current_head_tags, ","))
                    /\ Return(0)
               ELSE /\ out' = out
                    /\ pc' = "collect"
                    /\ exit' = exit
    /\ UNCHANGED <<args, repoVars, tree, localVars, effectVars>>

(* ------------------------------ file updates -------------------------- *)

\* the trees of the model nest their directories, ., sub, sub/sub, ...,
\* each holding a version.txt: the glob yields a directory before the
\* directories below it (the order of sibling directories is that of the
\* file system and is not modelled)
RECURSIVE DirPath(_)
DirPath(k) ==
    IF k = 1 THEN "." ELSE IF k = 2 THEN "sub" ELSE DirPath(k - 1) \o "/sub"

\* path of the k-th version.txt the glob yields
VersionPath(k) ==
    IF k = 1 THEN "version.txt" ELSE DirPath(k) \o "/version.txt"

\* a version.txt is in a directory git does not track, is itself untracked
\* in a tracked directory, or is tracked
FileStatus == {"untracked_dir", "untracked", "tracked"}

VersionFileLists ==
    UNION {[1..n -> FileStatus] : n \in 0..MaxVersionFiles}

TomlWithVersion == "name = \"pkg\"\nversion = \"1.2.3\"\n"
TomlWithoutVersion == "name = \"pkg\"\n"
NoFile == [exists |-> FALSE, cont |-> "", tracked |-> FALSE]

TomlStates ==
    {NoFile,
     [exists |-> TRUE, cont |-> TomlWithoutVersion, tracked |-> TRUE],
     [exists |-> TRUE, cont |-> TomlWithVersion, tracked |-> TRUE],
     [exists |-> TRUE, cont |-> TomlWithVersion, tracked |-> FALSE]}

\* git tracks a directory when it tracks a file below it
TreeOK(t) ==
    /\ \A k \in DOMAIN t.version_files :
            t.version_files[k] # "untracked_dir" =>
                \A j \in 1..k : t.version_files[j] # "untracked_dir"
    /\ (t.toml.tracked /\ t.version_files # <<>>) =>
            t.version_files[1] # "untracked_dir"

Trees == {t \in [version_files : VersionFileLists, toml : TomlStates] :
            TreeOK(t)}

RECURSIVE SkipWs(_, _)
SkipWs(s, i) == IF CharAt(s, i) \in Whitespace THEN SkipWs(s, i + 1) ELSE i

\* the position where a match of version\s*=\s*"\d+.*?" that starts at i
\* ends, or 0 when there is no match at i
MatchEnd(s, i) ==
    LET eq == SkipWs(s, i + 7)
        q1 == SkipWs(s, eq + 1)
        q2 == IndexFrom(s, "\"", q1 + 2)
    IN  IF /\ SubSeq(s, i, i + 6) = "version"
           /\ CharAt(s, eq) = "="
           /\ CharAt(s, q1) = "\""
           /\ CharAt(s, q1 + 1) \in Digits
           /\ q2 # 0
           /\ NotIn("\n", SubSeq(s, q1 + 2, q2 - 1))
        THEN q2
        ELSE 0

\* re.sub(pattern, repl, s) from position i on
RECURSIVE ReSubFrom(_, _, _)
ReSubFrom(s, repl, i) ==
    IF i > Len(s) THEN ""
    ELSE IF i + 6 <= Len(s) /\ MatchEnd(s, i) # 0
         THEN repl \o ReSubFrom(s, repl, MatchEnd(s, i) + 1)
         ELSE CharAt(s, i) \o ReSubFrom(s, repl, i + 1)

Update(file, content) == [file |-> file, content |-> content]

\* is_path_tracked_by_git on the parent directory of the k-th version.txt
ParentTracked(t, k) == t.version_files[k] # "untracked_dir"

\* is_path_tracked_by_git on a path of the update set
is_path_tracked_by_git(t, file) ==
    IF file = "pyproject.toml" THEN t.toml.tracked
    ELSE \E k \in DOMAIN t.version_files :
            VersionPath(k) = file /\ t.version_files[k] = "tracked"

RECURSIVE VersionUpdates(_, _, _)
VersionUpdates(t, new, k) ==
    IF k > Len(t.version_files) THEN <<>>
    ELSE (IF ParentTracked(t, k) THEN <<Update(VersionPath(k), new)>>
          ELSE <<>>) \o VersionUpdates(t, new, k + 1)

TomlUpdates(t, new) ==
    LET new_cont == ReSubFrom(t.toml.cont, "version = \"" \o new \o "\"", 1)
    IN  IF t.toml.exists /\ new_cont # t.toml.cont
        THEN <<Update("pyproject.toml", new_cont)>>
        ELSE <<>>

\* collect_file_updates (lines 77-92): the update dict as the sequence of
\* its items
collect_file_updates(t, new) == VersionUpdates(t, new, 1) \o TomlUpdates(t, new)

\* the git ls-files queries collect_file_updates makes
CollectEvents(t) ==
    [k \in DOMAIN t.version_files |->
        EvLsFiles(DirPath(k), ParentTracked(t, k))]

\* lines 209-212
RECURSIVE ShowUpdates(_)
ShowUpdates(us) ==
    IF us = <<>> THEN <<>>
    ELSE <<"######### File: " \o us[1].file, us[1].content, "">>
            \o ShowUpdates(Tail(us))

\* lines 208-212, over the tree the run finds
CollectUpdates ==
    /\ pc = "collect"
    /\ \E t \in Trees :
        /\ tree' = t
        /\ updates' = collect_file_updates(t, VersionStr(new_version))
        /\ events' = events \o CollectEvents(t)
    /\ out' = out \o ShowUpdates(updates')
    /\ pc' = "prompt"
    /\ UNCHANGED <<args, exit, repoVars, parsed_version, prefix, new_version,
                   new_version_tag, next_update, commit_needed, ran_commands,
                   answer, effectVars>>

(* ------------------------------ confirm and apply --------------------- *)

Answers == {"y", "Y", "n"}

\* standard input at end of file: input() raises EOFError
EndOfFile == "<end of file>"

Prompt ==
    IF ~args.pre THEN "Proceed with changes and tagging? [y/N] "
    ELSE "Tagging won't be done because of --pre. Proceed with changes? [y/N] "

\* variant: the answer is compared ignoring case
ConfirmedIgnoringCase(a) == a \in {"y", "Y"}

\* line 218
Confirmed(a) == a = "y"

\* lines 213-222
Confirm ==
    /\ pc = "prompt"
    /\ \E a \in Answers \cup {EndOfFile} :
        IF a = EndOfFile
        THEN /\ answer' = answer
             /\ out' = Append(out, Prompt)
             /\ Raise
        ELSE /\ answer' = a
             /\ IF ~Confirmed(a)
                THEN /\ out' = out \o <<Prompt, "Aborted by user request">>
                     /\ Return(0)
                ELSE /\ out' = Append(out, Prompt)
                     /\ pc' = "apply"
                     /\ exit' = exit
    /\ commit_needed' = FALSE
    /\ UNCHANGED <<args, repoVars, tree, parsed_version, prefix, new_version,
                   new_version_tag, updates, next_update, ran_commands,
                   events, effectVars>>

\* variant: the write is not guarded by --dry
WritesFilesAlways == TRUE

\* line 225
WritesFiles == ~args.dry

\* variant: the staging is not guarded by --pre
StagesFileInPre(file) == is_path_tracked_by_git(tree, file)

\* line 227
StagesFile(file) == is_path_tracked_by_git(tree, file) /\ ~args.pre

\* one iteration of the loop of lines 223-234
UpdateFile ==
    /\ pc = "apply"
    /\ next_update <= Len(updates)
    /\ LET file == updates[next_update].file
           content == updates[next_update].content
           write == Event("write", "write", file, TRUE)
           ls == EvLsFiles(file, is_path_tracked_by_git(tree, file))
       IN  IF ~WritesFiles
           THEN /\ out' = Append(out, "Updating " \o file)
                /\ pc' = pc
                /\ UNCHANGED <<exit, events, fs, index, commit_needed,
                               ran_commands>>
           ELSE IF StagesFile(file)
           THEN \E ok \in BOOLEAN :
                LET r == run_command(<<"git", "add", file>>, "add", FALSE, ok)
                IN  /\ out' = out \o <<"Updating " \o file, "git add " \o file>>
                            \o r.printed
                    /\ fs' = (file :> content) @@ fs
                    /\ events' = events \o <<write, ls>> \o r.ev
                    /\ ran_commands' = r.ran
                    /\ index' = IF r.done THEN index \cup {file} ELSE index
                    /\ IF r.raised
                       THEN Raise /\ commit_needed' = commit_needed
                       ELSE /\ commit_needed' = TRUE
                            /\ pc' = pc
                            /\ exit' = exit
           ELSE /\ out' = out \o <<"Updating " \o file,
                      "File " \o file \o " is not tracked by git, skipping add">>
                /\ fs' = (file :> content) @@ fs
                /\ events' = events \o <<write, ls>>
                /\ pc' = pc
                /\ UNCHANGED <<exit, index, commit_needed, ran_commands>>
    /\ next_update' = next_update + 1
    /\ UNCHANGED <<args, repoVars, tree, parsed_version, prefix, new_version,
                   new_version_tag, updates, answer, commits, newTags>>

CommitMessage == "Bump version to " \o VersionStr(new_version)

\* lines 236-239
Commit ==
    /\ pc = "apply"
    /\ next_update > Len(updates)
    /\ IF commit_needed
       THEN \E ok \in BOOLEAN :
            LET r == run_command(<<"git", "commit", "-m", CommitMessage>>,
                                 "commit", TRUE, ok)
            IN  /\ out' = out \o r.printed
                /\ events' = events \o r.ev
                /\ ran_commands' = r.ran
                /\ commits' = IF r.done THEN Append(commits, CommitMessage)
                              ELSE commits
                /\ IF r.raised THEN Raise ELSE pc' = "tag" /\ exit' = exit
       ELSE /\ pc' = "tag"
            /\ UNCHANGED <<exit, out, events, ran_commands, commits>>
    /\ UNCHANGED <<args, repoVars, tree, parsed_version, prefix, new_version,
                   new_version_tag, updates, next_update, commit_needed,
                   answer, fs, index, newTags>>

\* variant: the tag is not guarded by --pre
TagsAlways == TRUE

\* line 240
TagsRelease == ~args.pre

\* lines 240-243
Tag ==
    /\ pc = "tag"
    /\ IF TagsRelease
       THEN \E ok \in BOOLEAN :
            LET r == run_command(<<"git", "tag", new_version_tag>>, "tag",
                                 TRUE, ok)
            IN  /\ out' = out \o r.printed
                /\ events' = events \o r.ev
                /\ ran_commands' = r.ran
                /\ newTags' = IF r.done THEN Append(newTags, new_version_tag)
                              ELSE newTags
                /\ IF r.raised THEN Raise ELSE pc' = "report" /\ exit' = exit
       ELSE /\ out' = Append(out, "Pre-release version, not tagging")
            /\ pc' = "report"
            /\ UNCHANGED <<exit, events, ran_commands, newTags>>
    /\ UNCHANGED <<args, repoVars, tree, parsed_version, prefix, new_version,
                   new_version_tag, updates, next_update, commit_needed,
                   answer, fs, index, commits>>

\* lines 245-248
Report ==
    /\ pc = "report"
    /\ out' = out \o <<"All done!", "Commands ran:">> \o ran_commands
    /\ Return(0)
    /\ UNCHANGED <<args, repoVars, tree, localVars, events, effectVars>>

Next ==
    \/ ShowVersion
    \/ CheckMode
    \/ FindTag
    \/ ComputeNewVersion
    \/ CheckClean
    \/ CheckHeadTags
    \/ CollectUpdates
    \/ Confirm
    \/ UpdateFile
    \/ Commit
    \/ Tag
    \/ Report

Spec == Init /\ [][Next]_vars

(* ------------------------------ vocabulary of the claims -------------- *)

Finished == pc \in {"done", "crashed"}

\* a file write, or an executed git add, git commit or git tag
IsMutation(e) ==
    e.kind = "write" \/ (e.kind = "run" /\ e.op \in {"add", "commit", "tag"})

NoMutation ==
    /\ \A i \in DOMAIN events : ~IsMutation(events[i])
    /\ fs = <<>>
    /\ index = {}
    /\ commits = <<>>
    /\ newTags = <<>>

\* position of the first occurrence of x in the sequence q, 0 when absent
RECURSIVE PosFrom(_, _, _)
PosFrom(q, x, i) ==
    IF i > Len(q) THEN 0 ELSE IF q[i] = x THEN i ELSE PosFrom(q, x, i + 1)

Printed(line) == PosFrom(out, line, 1) # 0

\* the working tree differs from the last committed snapshot
TreeDirty == unstaged \/ staged

\* the current commit carries a tag that is not a pre-release
HeadHasReleaseTag == \E i \in DOMAIN headTags : NotIn("-", headTags[i])

\* the current commit carries a tag parseable as a version
HeadHasVersionTag ==
    \E i \in DOMAIN headTags : is_version_parseable(headTags[i])

BumpRun == ~args.version /\ ~args.check

\* number of bump options on the command line
BumpCount ==
    (IF args.major THEN 1 ELSE 0) + (IF args.minor THEN 1 ELSE 0)
    + (IF args.patch THEN 1 ELSE 0) + (IF args.pre THEN 1 ELSE 0)
    + (IF args.set_version # "" THEN 1 ELSE 0)

\* the commands git was actually run with that change the repository
ExecutedMutating ==
    LET m == SelectSeq(events, LAMBDA e : e.kind = "run" /\ IsMutation(e))
    IN  [i \in DOMAIN m |-> m[i].text]

\* the lines of the final report after "Commands ran:"
ReportedCommands ==
    SubSeq(out, PosFrom(out, "Commands ran:", 1) + 1, Len(out))

(* ------------------------------ claims -------------------------------- *)

\* C1: in check mode the process exits 0 if and only if the working tree
\* has no uncommitted change relative to the last commit and the current
\* commit carries a non-pre-release tag; otherwise it prints a diagnostic
\* and exits 2.
C1_CheckExitCode ==
    (args.check /\ ~args.version /\ Finished) =>
        /\ exit = 0 <=> (~TreeDirty /\ HeadHasReleaseTag)
        /\ exit # 0 => (exit = 2 /\ out # <<>>)

\* C2: nothing is written, staged, committed or tagged before the prompt is
\* answered (also when the prompt gets no line and input() raises EOFError),
\* and an answer other than "y" ends the run with the report
\* "Aborted by user request", exit 0 and no mutation.
C2_ConfirmBeforeMutation ==
    /\ answer = NoAnswer => NoMutation
    /\ answer \notin {NoAnswer, "y"} =>
        /\ NoMutation
        /\ pc = "done"
        /\ exit = 0
        /\ out[Len(out)] = "Aborted by user request"

C2_Witness ==
    /\ answer = "Y"
    /\ pc = "done"
    /\ ~args.dry
    /\ \E i \in DOMAIN updates : StagesFile(updates[i].file)

\* C3 as stated, for bump runs with a bump option: a finished --dry run has
\* made no mutation and has printed the new version and the file contents.
C3_DryAlwaysReports ==
    (args.dry /\ BumpRun /\ BumpCount >= 1 /\ Finished) =>
        /\ NoMutation
        /\ \E i \in DOMAIN out : StartsWith(out[i], "New version: ")
        /\ tree # None
        /\ \A i \in DOMAIN updates : Printed(updates[i].content)

\* C3 amended: a --dry run makes no mutation; it prints the new version
\* once the bump is computed and the content of every file of the update
\* set once the guards are passed.
C3_DryRun ==
    args.dry =>
        /\ NoMutation
        /\ new_version # None =>
                Printed("New version: " \o VersionStr(new_version))
        /\ pc \in {"prompt", "apply", "tag", "report"} \/ answer # NoAnswer =>
            /\ tree # None
            /\ \A i \in DOMAIN updates :
                    /\ Printed("######### File: " \o updates[i].file)
                    /\ Printed(updates[i].content)
            /\ Len(updates) =
                    Cardinality({k \in DOMAIN tree.version_files :
                                    ParentTracked(tree, k)})
                    + (IF tree.toml.cont = TomlWithVersion THEN 1 ELSE 0)

C3_Witness ==
    /\ args.dry
    /\ pc = "done"
    /\ answer = "y"
    /\ Len(updates) = 2
    /\ \E i \in DOMAIN updates : StagesFile(updates[i].file)
    /\ Printed("DRY RUN: git tag " \o new_version_tag)

\* C4: a run with --pre stages no file, creates no commit and no tag,
\* whatever the other options and whether or not the paths are tracked.
C4_PreNeverStagesCommitsTags ==
    args.pre =>
        /\ index = {}
        /\ commits = <<>>
        /\ newTags = <<>>
        /\ \A i \in DOMAIN events :
                events[i].kind = "run" => ~IsMutation(events[i])

C4_Witness ==
    /\ args.pre
    /\ args.minor
    /\ args.force
    /\ ~args.dry
    /\ pc = "done"
    /\ answer = "y"
    /\ \E i \in DOMAIN updates :
            /\ is_path_tracked_by_git(tree, updates[i].file)
            /\ updates[i].file \in DOMAIN fs

\* C5: a bump run makes no mutation and never reaches the prompt when the
\* working tree is dirty and neither --force nor --pre is given, or when
\* the current commit carries a version tag and --force is not given.
C5_Guards ==
    (BumpRun /\ ( \/ TreeDirty /\ ~args.force /\ ~args.pre
                  \/ HeadHasVersionTag /\ ~args.force )) =>
        /\ NoMutation
        /\ answer = NoAnswer
        /\ pc \notin {"prompt", "apply", "tag", "report"}

\* C6 as stated: at the end of every confirmed run without --dry, the
\* commit "Bump version to <version>" exists iff a file was staged, and the
\* tag <prefix><version> exists iff the run is not a pre-release.
C6_CommitAndTagInEveryRun ==
    (Finished /\ answer = "y" /\ ~args.dry) =>
        /\ commits = <<CommitMessage>> <=> index # {}
        /\ newTags = <<prefix \o VersionStr(new_version)>> <=> ~args.pre

\* a command of the given kinds, run by run_command, has failed
RunFailed(ops) ==
    \E i \in DOMAIN events :
        events[i].kind = "run" /\ ~events[i].ok /\ events[i].op \in ops

\* C6 amended: at the end of every confirmed run without --dry, the commit
\* "Bump version to <version>" exists iff a file was staged and no git add
\* or git commit failed, and the tag <prefix><version> exists iff the run is
\* not a pre-release and no git add, git commit or git tag failed; at any
\* time a commit implies a staged file and a tag implies a run without
\* --pre.
C6_CommitAndTag ==
    /\ (Finished /\ answer = "y" /\ ~args.dry) =>
        /\ commits = <<CommitMessage>> <=>
                (index # {} /\ ~RunFailed({"add", "commit"}))
        /\ newTags = <<prefix \o VersionStr(new_version)>> <=>
                (~args.pre /\ ~RunFailed({"add", "commit", "tag"}))
    /\ commits # <<>> => (commits = <<CommitMessage>> /\ index # {})
    /\ newTags # <<>> =>
            (newTags = <<prefix \o VersionStr(new_version)>> /\ ~args.pre)

C6_Witness ==
    /\ pc = "done"
    /\ answer = "y"
    /\ ~args.dry
    /\ nearest = "v1.2.3"
    /\ args.patch
    /\ index = {"version.txt"}
    /\ fs["version.txt"] = "1.2.4"
    /\ commits = <<"Bump version to 1.2.4">>
    /\ newTags = <<"v1.2.4">>

\* C7: the final report lists exactly the mutating git commands that were
\* executed, in execution order.
C7_ReportListsMutations ==
    (pc = "done" /\ Printed("Commands ran:")) =>
        ReportedCommands = ExecutedMutating

\* C8 as stated, in its parts about mutation and normal return: when the
\* number of bump options is not exactly one a bump run makes no mutation
\* and, when it returns, has printed a message and exits 0.
C8_ExactlyOneBump ==
    (BumpRun /\ BumpCount # 1) =>
        /\ NoMutation
        /\ pc = "done" => (exit = 0 /\ out # <<>>)

\* C8 amended: when no bump option is given, a bump run makes no mutation;
\* it prints "No tags found" or the "No version bump requested" message and
\* exits 0, unless the latest tag does not parse as a version, which raises
\* ValueError. Two or more options are not rejected.
C8_NoBumpRequested ==
    (BumpRun /\ BumpCount = 0) =>
        /\ NoMutation
        /\ pc \in {"start", "bump", "done", "crashed"}
        /\ pc = "done" =>
            /\ exit = 0
            /\ out[Len(out)] \in {MsgNoBump, "No tags found"}
        /\ pc = "crashed" => ~is_version_parseable(nearest)

C8_Witness ==
    /\ BumpRun
    /\ BumpCount = 0
    /\ pc = "done"
    /\ args.force
    /\ out = <<"Current version: v1.2.3", MsgNoBump>>

\* the git commit and git tag commands the confirmed run executes without
\* --dry on the same tree
NonDryCommands ==
    (IF \E i \in DOMAIN updates : StagesFile(updates[i].file)
     THEN <<CmdText(<<"git", "commit", "-m", CommitMessage>>)>> ELSE <<>>)
    \o (IF TagsRelease THEN <<CmdText(<<"git", "tag", new_version_tag>>)>>
        ELSE <<>>)

\* the completed runs without --dry execute exactly NonDryCommands after
\* the git add commands
NonDryCommandsExecuted ==
    (pc = "done" /\ answer = "y" /\ ~args.dry) =>
        SelectSeq(ExecutedMutating, LAMBDA c : ~StartsWith(c, "git add "))
            = NonDryCommands

\* C9: a confirmed --dry run prints as "DRY RUN:" every git commit and git
\* tag command the same run executes without --dry.
C9_DryReportsCommitAndTag ==
    (args.dry /\ pc = "done" /\ answer = "y") =>
        \A i \in DOMAIN NonDryCommands :
            Printed("DRY RUN: " \o NonDryCommands[i])

\* C10 as stated: after any git invocation that returned failure, no file
\* is written and no git add, git commit or git tag is executed.
C10_AnyFailureAborts ==
    \A i \in DOMAIN events : ~events[i].ok =>
        \A j \in DOMAIN events : j > i => ~IsMutation(events[j])

\* C10 amended: a failure of a command run by run_command (git status,
\* git add, git commit, git tag) ends the run at once with the error, and
\* the files written and staged before it stay as they are; the failures
\* of the query commands are answers and do not end the run.
C10_RunCommandFailFast ==
    /\ \A i \in DOMAIN events :
        (events[i].kind = "run" /\ ~events[i].ok) =>
            /\ i = Len(events)
            /\ pc = "crashed"
            /\ exit = 1
    /\ \A i \in DOMAIN events :
        /\ events[i].kind = "write" => events[i].text \in DOMAIN fs
        /\ (events[i].op = "add" /\ events[i].ok) =>
                \E f \in index : events[i].text = "git add " \o f

C10_Witness ==
    /\ pc = "crashed"
    /\ Len(events) > 0
    /\ events[Len(events)].op = "add"
    /\ ~events[Len(events)].ok
    /\ index = {"version.txt"}
    /\ DOMAIN fs = {"version.txt", "pyproject.toml"}
    /\ commits = <<>>
    /\ newTags = <<>>

====
